---- MODULE Spec2Model ----
(***************************************************************************)
(* A model of the pinball table of pinball.py: the per-frame loop of       *)
(* Game.run (handle_events, then update), the rules layer (score, balls,   *)
(* ball save, tilt, rollovers, bumper multiplier, high score) and the      *)
(* collision code it drives.                                               *)
(*                                                                         *)
(* Numbers.  The program computes in floating point; the model computes    *)
(* the same formulas in fixed point:                                       *)
(*   time        milliseconds (clock.tick returns whole milliseconds)      *)
(*   positions   1/PX pixel,   velocities 1/PX pixel per second            *)
(*   normals     1/NS                                                      *)
(*   angles      1/DEG degree, angular velocity 1/1000 rad per second      *)
(*   tilt meter  1/METER nudge                                             *)
(* with every quotient rounded to the nearest unit.                        *)
(***************************************************************************)
EXTENDS Integers, Sequences, FiniteSets, TLC

PX == 10
NS == 1000
DEG == 10
METER == 10000
MS == 1000

\* ------------------------------------------------------------- Config
WIDTH == 500
HEIGHT == 650
BALL_RADIUS == 12
FLIPPER_LENGTH == 140
PLUNGER_MAX == 480
PLUNGER_CHARGE_RATE == 900
START_BALLS == 3
NUDGE_IMPULSE == 260
TILT_MAX == 3

RESTI_BALL_WALL == 85        \* 0.85, in hundredths
RESTI_BALL_BUMPER == 105     \* 1.05
RESTI_BALL_FLIPPER == 100    \* 1.0
RESTI_SLINGSHOT == 120       \* 1.2
TANGENTIAL_KEEP == 98        \* 1.0 - TANGENTIAL_FRICTION, in hundredths

FLIPPER_LEFT_MIN == 15 * DEG
FLIPPER_LEFT_MAX == 70 * DEG
FLIPPER_RIGHT_MIN == -(70 * DEG)
FLIPPER_RIGHT_MAX == -(15 * DEG)

BALL_SAVE_TIME == 8 * MS
TILT_LOCKOUT == 4 * MS
MULT_TIME == 15 * MS
MULT_BONUS == 1000
LAUNCH_BASE == 400

\* FLIPPER_SPEED * dt, PLUNGER_CHARGE_RATE * dt and TILT_DECAY * dt for a dt
\* in milliseconds
FlipperSweep(dt) == (900 * DEG * dt) \div MS
PlungerGain(dt) == (PLUNGER_CHARGE_RATE * PX * dt) \div MS
TiltDecay(dt) == (4 * METER * dt) \div (10 * MS)

\* ------------------------------------------------------------ helpers
RDiv(a, b) == (2 * a + b) \div (2 * b)
Abs(x) == IF x < 0 THEN -x ELSE x
Max2(a, b) == IF a >= b THEN a ELSE b
Min2(a, b) == IF a <= b THEN a ELSE b
clamp(x, lo, hi) == Max2(lo, Min2(hi, x))

Px(p) == <<p[1] * PX, p[2] * PX>>
VAdd(u, v) == <<u[1] + v[1], u[2] + v[2]>>
VSub(u, v) == <<u[1] - v[1], u[2] - v[2]>>
Dot(u, v) == u[1] * v[1] + u[2] * v[2]
Len2(u) == Dot(u, u)
\* k * n for a scaled unit vector n: the vector of length k along n
Along(n, k) == <<RDiv(n[1] * k, NS), RDiv(n[2] * k, NS)>>

RECURSIVE SqrtIter(_, _, _)
SqrtIter(n, lo, hi) ==
  IF lo >= hi THEN lo
  ELSE LET mid == (lo + hi + 1) \div 2
       IN IF mid * mid <= n THEN SqrtIter(n, mid, hi) ELSE SqrtIter(n, lo, mid - 1)
\* floor of the square root, for n < 2^28
ISqrt(n) == SqrtIter(n, 0, 16384)

\* diff / dist for a dist in tenths of a unit: the unit vector along diff
\* (the zero vector when diff is zero: the program divides the zero vector
\* by 1e-9)
Unit(diff, dist) ==
  IF dist = 0 THEN <<0, 0>>
  ELSE <<RDiv(diff[1] * NS * 10, dist), RDiv(diff[2] * NS * 10, dist)>>

\* F(e), with e evaluated before F is entered
Then(e, F(_)) == CHOOSE r \in {F(x) : x \in {e}} : TRUE

\* ---------------------------------------------------------- geometry
reflect(v, n, restitution) ==
  LET vn == RDiv(Dot(v, n), NS)
  IN IF Dot(v, n) < 0
     THEN VSub(v, Along(n, RDiv((100 + restitution) * vn, 100)))
     ELSE v

NoHit == [hit |-> FALSE, push |-> <<0, 0>>, n |-> <<0, 0>>, closest |-> <<0, 0>>]

HitAt(c, r, q) ==
  LET diff == VSub(c, q)
      d2 == Len2(diff)
  IN IF d2 < r * r
     THEN LET dist == ISqrt(d2 * 100)
              n == Unit(diff, dist)
          IN [hit |-> TRUE, push |-> Along(n, RDiv(r * 10 - dist, 10)), n |-> n,
              closest |-> q]
     ELSE [NoHit EXCEPT !.closest = q]

\* a + t * ab for t = clamp(dot / ab2, 0, 1)
ClosestOn(c, a, b) ==
  LET ab == VSub(b, a)
      ab2 == Len2(ab)
      dot == Dot(VSub(c, a), ab)
  IN IF dot <= 0 THEN a
     ELSE IF dot >= ab2 THEN b
     ELSE LET t1 == (dot * 100) \div ab2
              r1 == dot * 100 - t1 * ab2
              t == t1 * 100 + (r1 * 100) \div ab2
          IN <<a[1] + RDiv(ab[1] * t, 10000), a[2] + RDiv(ab[2] * t, 10000)>>

circle_line_collision(c, r, a, b) ==
  IF a = b THEN HitAt(c, r, a) ELSE HitAt(c, r, ClosestOn(c, a, b))

circle_circle_collision(c1, r1, c2, r2) == HitAt(c1, r1 + r2, c2)

\* sin and cos of an angle in 1/DEG degrees, in 1/NS (Bhaskara's rational
\* approximation of the sine on [0, 180] degrees, error below 0.002)
SinHalfTurn(x) ==
  LET p == x * (180 * DEG - x)
  IN RDiv(NS * p, RDiv(40500 * DEG * DEG - p, 4))
Sin(x) ==
  IF x < 0 THEN -SinHalfTurn(-x)
  ELSE IF x > 180 * DEG THEN -SinHalfTurn(x - 180 * DEG)
  ELSE SinHalfTurn(x)
Cos(x) == Sin(x + 90 * DEG)
\* math.radians, in 1/1000 rad
Radians(a) == RDiv(a * 17453, 1000 * DEG)

\* ------------------------------------------------------- table layout
Wall(a, b, score, restitution) ==
  [a |-> Px(a), b |-> Px(b), score |-> score, restitution |-> restitution]
Bumper(pos, radius, score) == [pos |-> Px(pos), radius |-> radius * PX, score |-> score]

margin == 80
bottom_y == HEIGHT - 80

walls ==
  << Wall(<<margin, 140>>, <<margin, bottom_y>>, 5, RESTI_BALL_WALL),
     Wall(<<margin, 140>>, <<WIDTH - margin - 100, 140>>, 5, RESTI_BALL_WALL),
     Wall(<<WIDTH - margin - 100, 140>>, <<WIDTH - margin - 100, bottom_y - 180>>, 5, RESTI_BALL_WALL),
     Wall(<<margin, bottom_y>>, <<WIDTH \div 2 - 80, HEIGHT - 20>>, 5, RESTI_BALL_WALL),
     Wall(<<WIDTH - margin - 100, bottom_y - 180>>, <<WIDTH - margin - 60, bottom_y - 60>>, 5, RESTI_BALL_WALL),
     Wall(<<WIDTH - margin - 60, bottom_y - 60>>, <<WIDTH \div 2 + 80, HEIGHT - 20>>, 5, RESTI_BALL_WALL),
     Wall(<<(WIDTH * 28) \div 100, bottom_y - 40>>, <<(WIDTH * 42) \div 100, bottom_y - 110>>, 25, RESTI_SLINGSHOT),
     Wall(<<(WIDTH * 72) \div 100, bottom_y - 40>>, <<(WIDTH * 58) \div 100, bottom_y - 110>>, 25, RESTI_SLINGSHOT) >>

bumpers ==
  << Bumper(<<(WIDTH * 35) \div 100, 300>>, 38, 150),
     Bumper(<<(WIDTH * 55) \div 100, 300>>, 38, 150),
     Bumper(<<(WIDTH * 45) \div 100, 220>>, 38, 200),
     Bumper(<<(WIDTH * 32) \div 100, 480>>, 28, 100),
     Bumper(<<(WIDTH * 58) \div 100, 520>>, 28, 100),
     Bumper(<<(WIDTH * 46) \div 100, 620>>, 24, 75) >>

\* the rollovers' positions; radius 14, score 250 each
rollover_pos ==
  << Px(<<(WIDTH * 35) \div 100, 160>>),
     Px(<<(WIDTH * 45) \div 100, 160>>),
     Px(<<(WIDTH * 55) \div 100, 160>>) >>
ROLLOVER_RADIUS == 14
ROLLOVER_SCORE == 250
Rollovers == 1 .. Len(rollover_pos)

pivot_y == HEIGHT - 120
left_pivot == Px(<<(WIDTH * 35) \div 100, pivot_y>>)
right_pivot == Px(<<(WIDTH * 65) \div 100, pivot_y>>)

SpawnPos == Px(<<WIDTH - 140, HEIGHT - 140>>)

\* ------------------------------------------------------------ Flipper
Flipper(pivot, is_left) ==
  [ pivot |-> pivot,
    angle |-> IF is_left THEN FLIPPER_LEFT_MIN ELSE FLIPPER_RIGHT_MIN,
    min_angle |-> IF is_left THEN FLIPPER_LEFT_MIN ELSE FLIPPER_RIGHT_MIN,
    max_angle |-> IF is_left THEN FLIPPER_LEFT_MAX ELSE FLIPPER_RIGHT_MAX,
    key_pressed |-> FALSE ]

\* the tip of the flipper: pivot + (cos angle, -sin angle) * length
Tip(f) ==
  VAdd(f.pivot, <<RDiv(Cos(f.angle) * FLIPPER_LENGTH * PX, NS),
                  -RDiv(Sin(f.angle) * FLIPPER_LENGTH * PX, NS)>>)

FlipperTarget(f) == IF f.key_pressed THEN f.max_angle ELSE f.min_angle

\* a flipper that falls but never rises
FlipperAngleStuck(f, dt) ==
  LET target == FlipperTarget(f)
  IN IF f.angle > target THEN Max2(f.angle - FlipperSweep(dt), target)
     ELSE f.angle

\* a sweep that is stopped a degree past the target
FlipperAngleOvershoots(f, dt) ==
  LET target == FlipperTarget(f)
  IN IF f.angle < target THEN Min2(f.angle + FlipperSweep(dt), target + DEG)
     ELSE IF f.angle > target THEN Max2(f.angle - FlipperSweep(dt), target - DEG)
     ELSE f.angle

FlipperAngle(f, dt) ==
  LET target == FlipperTarget(f)
  IN IF f.angle < target THEN Min2(f.angle + FlipperSweep(dt), target)
     ELSE IF f.angle > target THEN Max2(f.angle - FlipperSweep(dt), target)
     ELSE f.angle

\* Flipper.update.  ang_vel, which update writes and only the flipper
\* collision of the same update reads, is kept beside the flipper for the
\* length of the step (AngVel) and is no part of the state.
Flipper_update(f, dt) == [f EXCEPT !.angle = FlipperAngle(f, dt)]
AngVel(f, dt) == RDiv(Radians(FlipperAngle(f, dt) - f.angle) * MS, dt)

\* --------------------------------------------------------------- Ball
Ball(pos) == [pos |-> pos, vel |-> <<0, 0>>, in_play |-> FALSE]

\* Ball.apply_physics.  An idle ball is left alone.  For a ball in play the
\* program integrates gravity, drag and the speed clamp in floating point
\* over hundreds of frames; the model does not reproduce that trajectory
\* and lets the step carry the ball to `moved`, any of the positions and
\* velocities the specification samples.
apply_physics(ball, moved) ==
  IF ~ball.in_play THEN ball
  ELSE [ball EXCEPT !.pos = moved.pos, !.vel = moved.vel]

\* ------------------------------------------------- the update pipeline
\* The stages of Game.update act on s = [g |-> the Game object, ang_vel |->
\* the flippers' angular velocities in this step, fx |-> what the step has
\* done so far]: ran (update got past its early return), hits (the scoring
\* hits, in order), newly (the rollovers whose check returned True), bonus
\* (the completion bonuses awarded), cut_short (the ball-save window ran
\* out in this update under a ball that had crossed the drain line), drain
\* and saves (the calls of save_high_score).
NoFx ==
  [ran |-> FALSE, hits |-> <<>>, newly |-> {}, bonus |-> 0, cut_short |-> FALSE,
   drain |-> "none", saves |-> 0]

\* a score that does not ask whether the ball is in play
ScoredAlways(s, kind, i, points) ==
  [s EXCEPT !.g.score = @ + points, !.fx.hits = Append(@, <<kind, i, points>>)]

Scored(s, kind, i, points) ==
  IF s.g.ball.in_play
  THEN [s EXCEPT !.g.score = @ + points, !.fx.hits = Append(@, <<kind, i, points>>)]
  ELSE s

WallResponse(s, i) ==
  LET w == walls[i]
      h == circle_line_collision(s.g.ball.pos, BALL_RADIUS * PX, w.a, w.b)
      n == h.n
      t == <<-n[2], n[1]>>
      vt == RDiv(RDiv(Dot(s.g.ball.vel, t), NS) * TANGENTIAL_KEEP, 100)
      vn == RDiv(Dot(s.g.ball.vel, n), NS)
      v1 == VAdd(Along(t, vt), Along(n, vn))
  IN IF ~h.hit THEN s
     ELSE Scored([s EXCEPT !.g.ball.pos = VAdd(@, h.push),
                           !.g.ball.vel = reflect(v1, n, w.restitution)],
                 "wall", i, w.score)

RECURSIVE WallsFrom(_, _)
WallsFrom(s, i) ==
  IF i > Len(walls) THEN s
  ELSE Then(WallResponse(s, i), LAMBDA x : WallsFrom(x, i + 1))

\* the safety borders at the left, right and top
Borders(ball) ==
  LET r == BALL_RADIUS * PX
      b1 == IF ball.pos[1] - r < 74 * PX
            THEN [ball EXCEPT !.pos[1] = 74 * PX + r,
                              !.vel[1] = RDiv(Abs(@) * RESTI_BALL_WALL, 100)]
            ELSE ball
      b2 == IF b1.pos[1] + r > (WIDTH - 160) * PX
            THEN [b1 EXCEPT !.pos[1] = (WIDTH - 160) * PX - r,
                            !.vel[1] = -RDiv(Abs(@) * RESTI_BALL_WALL, 100)]
            ELSE b1
  IN IF b2.pos[2] - r < (120 + 16) * PX
     THEN [b2 EXCEPT !.pos[2] = (120 + 16) * PX + r,
                     !.vel[2] = RDiv(Abs(@) * RESTI_BALL_WALL, 100)]
     ELSE b2

handle_wall_collisions(s) ==
  LET s1 == WallsFrom(s, 1) IN [s1 EXCEPT !.g.ball = Borders(@)]

\* a bumper that pays its base score whatever the multiplier
BumperResponseFlat(s, i) ==
  LET b == bumpers[i]
      h == circle_circle_collision(s.g.ball.pos, BALL_RADIUS * PX, b.pos, b.radius)
  IN IF ~h.hit THEN s
     ELSE Scored([s EXCEPT !.g.ball.pos = VAdd(@, h.push),
                           !.g.ball.vel = VAdd(reflect(@, h.n, RESTI_BALL_BUMPER),
                                               Along(h.n, 200 * PX))],
                 "bumper", i, b.score)

BumperResponse(s, i) ==
  LET b == bumpers[i]
      h == circle_circle_collision(s.g.ball.pos, BALL_RADIUS * PX, b.pos, b.radius)
  IN IF ~h.hit THEN s
     ELSE Scored([s EXCEPT !.g.ball.pos = VAdd(@, h.push),
                           !.g.ball.vel = VAdd(reflect(@, h.n, RESTI_BALL_BUMPER),
                                               Along(h.n, 200 * PX))],
                 "bumper", i, b.score * s.g.bumper_mult)

RECURSIVE BumpersFrom(_, _)
BumpersFrom(s, i) ==
  IF i > Len(bumpers) THEN s
  ELSE Then(BumperResponse(s, i), LAMBDA x : BumpersFrom(x, i + 1))

handle_bumper_collisions(s) == BumpersFrom(s, 1)

\* a check that fires again on a rollover already lit
Rollover_checkRefires(lit, pos, ball_pos, ball_r) ==
  LET reach == ROLLOVER_RADIUS * PX + (ball_r * 6) \div 10
  IN IF Len2(VSub(ball_pos, pos)) < reach * reach
     THEN [lit |-> TRUE, newly |-> TRUE]
     ELSE [lit |-> lit, newly |-> FALSE]

\* Rollover.check: [lit |-> the flag afterwards, newly |-> the value returned]
Rollover_check(lit, pos, ball_pos, ball_r) ==
  LET reach == ROLLOVER_RADIUS * PX + (ball_r * 6) \div 10
  IN IF lit THEN [lit |-> TRUE, newly |-> FALSE]
     ELSE IF Len2(VSub(ball_pos, pos)) < reach * reach
     THEN [lit |-> TRUE, newly |-> TRUE]
     ELSE [lit |-> FALSE, newly |-> FALSE]

RolloverResponse(s, i) ==
  LET c == Rollover_check(s.g.rollovers[i], rollover_pos[i], s.g.ball.pos,
                          BALL_RADIUS * PX)
      s1 == [s EXCEPT !.g.rollovers[i] = c.lit]
  IN IF c.newly
     THEN Scored([s1 EXCEPT !.fx.newly = @ \cup {i}], "rollover", i, ROLLOVER_SCORE)
     ELSE s1

RECURSIVE RolloversFrom(_, _)
RolloversFrom(s, i) ==
  IF i > Len(rollover_pos) THEN s
  ELSE Then(RolloverResponse(s, i), LAMBDA x : RolloversFrom(x, i + 1))

AllLit(lit) == \A i \in Rollovers : lit[i]

\* an award that leaves the set lit
CompletionKeepsLights(s) ==
  [s EXCEPT !.g.score = @ + MULT_BONUS,
            !.g.bumper_mult = 2,
            !.g.bumper_mult_timer = MULT_TIME,
            !.fx.bonus = @ + 1]

\* the award for a completed set: bonus, multiplier, lights reset
Completion(s) ==
  [s EXCEPT !.g.score = @ + MULT_BONUS,
            !.g.bumper_mult = 2,
            !.g.bumper_mult_timer = MULT_TIME,
            !.g.rollovers = [i \in Rollovers |-> FALSE],
            !.fx.bonus = @ + 1]

handle_rollovers(s) ==
  LET s1 == RolloversFrom(s, 1)
  IN IF s1.g.ball.in_play /\ AllLit(s1.g.rollovers) THEN Completion(s1) ELSE s1

\* `side` is 1 for the left flipper and 2 for the right one
handle_flipper_collision(s, flipper, side) ==
  LET h == circle_line_collision(s.g.ball.pos, BALL_RADIUS * PX, flipper.pivot,
                                 Tip(flipper))
      v1 == reflect(s.g.ball.vel, h.n, RESTI_BALL_FLIPPER)
      r == VSub(h.closest, flipper.pivot)
      v_point == <<RDiv(-r[2] * s.ang_vel[side], 1000), RDiv(r[1] * s.ang_vel[side], 1000)>>
      boost == RDiv(Dot(v_point, h.n), NS)
      v2 == IF boost > 0 THEN VAdd(v1, Along(h.n, RDiv(boost * 9, 10))) ELSE v1
  IN IF ~h.hit THEN s
     ELSE Scored([s EXCEPT !.g.ball.pos = VAdd(@, h.push), !.g.ball.vel = v2],
                 "flipper", side, 1)

\* ------------------------------------------------------ rules of update
\* a respawn that also wipes the score
reset_ballClearsScore(g) ==
  [g EXCEPT !.ball = Ball(SpawnPos),
            !.plunger_power = 0,
            !.just_lost = FALSE,
            !.ball_save_active = FALSE,
            !.ball_save_timer = 0,
            !.score = 0]

reset_ball(g) ==
  [g EXCEPT !.ball = Ball(SpawnPos),
            !.plunger_power = 0,
            !.just_lost = FALSE,
            !.ball_save_active = FALSE,
            !.ball_save_timer = 0]

\* a window whose timer runs out and leaves the multiplier doubled
MultTimerKeepsDouble(g, dt) ==
  IF g.bumper_mult_timer > 0
  THEN [g EXCEPT !.bumper_mult_timer = @ - dt]
  ELSE g

\* "Bonus timers"
MultTimer(g, dt) ==
  IF g.bumper_mult_timer > 0
  THEN [g EXCEPT !.bumper_mult_timer = @ - dt,
                 !.bumper_mult = IF g.bumper_mult_timer - dt <= 0 THEN 1 ELSE @]
  ELSE g

\* a tilt rule whose meter decays during the lockout too
TiltTimerDecaysAlways(g, dt) ==
  [(IF g.tilt_active
    THEN [g EXCEPT !.tilt_timer = @ - dt,
                   !.tilt_active = ~(g.tilt_timer - dt <= 0)]
    ELSE g)
   EXCEPT !.tilt_meter = Max2(0, @ - TiltDecay(dt))]

\* "Tilt timer and decay"
TiltTimer(g, dt) ==
  IF g.tilt_active
  THEN [g EXCEPT !.tilt_timer = @ - dt,
                 !.tilt_active = ~(g.tilt_timer - dt <= 0)]
  ELSE [g EXCEPT !.tilt_meter = Max2(0, @ - TiltDecay(dt))]

\* "Ball save timer"
BallSaveTimer(g, dt) ==
  IF g.ball_save_active
  THEN [g EXCEPT !.ball_save_timer = @ - dt,
                 !.ball_save_active = ~(g.ball_save_timer - dt <= 0)]
  ELSE g

\* the ball is in play and wholly below the drain line
Drained(ball) == ball.in_play /\ ball.pos[2] - BALL_RADIUS * PX > (HEIGHT + 40) * PX

Timers(s, dt) ==
  [s EXCEPT !.g = BallSaveTimer(TiltTimer(MultTimer(@, dt), dt), dt),
            !.fx.cut_short = /\ s.g.ball_save_active
                             /\ s.g.ball_save_timer - dt <= 0
                             /\ Drained(s.g.ball)]

\* a save that respawns the ball and lets the window run on
SaveBallKeepsWindow(s) ==
  [s EXCEPT !.g = [reset_ball([@ EXCEPT !.ball.in_play = FALSE])
                     EXCEPT !.ball_save_active = s.g.ball_save_active,
                            !.ball_save_timer = s.g.ball_save_timer],
            !.fx.drain = "saved"]

\* "Save the ball: relaunch from plunger"
SaveBall(s) ==
  [s EXCEPT !.g = reset_ball([@ EXCEPT !.ball.in_play = FALSE]), !.fx.drain = "saved"]

\* a lost ball whose game over overwrites the high score with the score
LoseBallOverwrite(s) ==
  LET g1 == [s.g EXCEPT !.balls_left = @ - 1, !.ball.in_play = FALSE, !.just_lost = TRUE]
  IN IF g1.balls_left <= 0
     THEN [s EXCEPT !.g = [g1 EXCEPT !.game_over = TRUE, !.high_score = g1.score],
                    !.fx.drain = "lost",
                    !.fx.saves = @ + 1]
     ELSE [s EXCEPT !.g = reset_ball(g1), !.fx.drain = "lost"]

\* the ball is lost: one ball less, then game over or the next ball
LoseBall(s) ==
  LET g1 == [s.g EXCEPT !.balls_left = @ - 1, !.ball.in_play = FALSE, !.just_lost = TRUE]
  IN IF g1.balls_left <= 0
     THEN [s EXCEPT !.g = [g1 EXCEPT !.game_over = TRUE,
                                     !.high_score = Max2(@, g1.score)],
                    !.fx.drain = "lost",
                    !.fx.saves = @ + 1]
     ELSE [s EXCEPT !.g = reset_ball(g1), !.fx.drain = "lost"]

\* a drain check that forgets the ball save
DrainCheckNoSave(s) ==
  IF Drained(s.g.ball) THEN LoseBall(s) ELSE s

\* "Drain check"
DrainCheck(s) ==
  IF Drained(s.g.ball)
  THEN IF s.g.ball_save_active THEN SaveBall(s) ELSE LoseBall(s)
  ELSE s

\* an update that checks the drain before it advances the timers
PipelineDrainFirst(g, dt, moved) ==
  LET s0 == [g |-> [g EXCEPT !.left_flipper = Flipper_update(@, dt),
                             !.right_flipper = Flipper_update(@, dt),
                             !.ball = apply_physics(@, moved)],
             ang_vel |-> <<AngVel(g.left_flipper, dt), AngVel(g.right_flipper, dt)>>,
             fx |-> [NoFx EXCEPT !.ran = TRUE]]
  IN Then(s0, LAMBDA a :
     Then(handle_wall_collisions(a), LAMBDA b :
     Then(handle_bumper_collisions(b), LAMBDA c :
     Then(handle_rollovers(c), LAMBDA d :
     Then(handle_flipper_collision(d, d.g.left_flipper, 1), LAMBDA e :
     Then(handle_flipper_collision(e, e.g.right_flipper, 2), LAMBDA f :
     Timers(DrainCheck(f), dt)))))))

\* Game.update, from the flippers to the drain check
Pipeline(g, dt, moved) ==
  LET s0 == [g |-> [g EXCEPT !.left_flipper = Flipper_update(@, dt),
                             !.right_flipper = Flipper_update(@, dt),
                             !.ball = apply_physics(@, moved)],
             ang_vel |-> <<AngVel(g.left_flipper, dt), AngVel(g.right_flipper, dt)>>,
             fx |-> [NoFx EXCEPT !.ran = TRUE]]
  IN Then(s0, LAMBDA a :
     Then(handle_wall_collisions(a), LAMBDA b :
     Then(handle_bumper_collisions(b), LAMBDA c :
     Then(handle_rollovers(c), LAMBDA d :
     Then(handle_flipper_collision(d, d.g.left_flipper, 1), LAMBDA e :
     Then(handle_flipper_collision(e, e.g.right_flipper, 2), LAMBDA f :
     DrainCheck(Timers(f, dt))))))))

\* an update that runs on while the game is paused
updateThroughPause(g, dt, moved) ==
  IF g.game_over THEN [g |-> g, ang_vel |-> <<0, 0>>, fx |-> NoFx]
  ELSE Pipeline(g, dt, moved)

update(g, dt, moved) ==
  IF g.paused \/ g.game_over THEN [g |-> g, ang_vel |-> <<0, 0>>, fx |-> NoFx]
  ELSE Pipeline(g, dt, moved)

\* ------------------------------------------------------ other methods
\* a restart that hands out no new balls
restartNoBalls(g) ==
  [reset_ball([g EXCEPT !.score = 0,
                        !.game_over = FALSE,
                        !.paused = FALSE])
     EXCEPT !.bumper_mult = 1,
            !.bumper_mult_timer = 0,
            !.rollovers = [i \in Rollovers |-> FALSE],
            !.tilt_meter = 0,
            !.tilt_active = FALSE]

\* a restart that leaves the lights and the multiplier of the old game
restartKeepsBonus(g) ==
  [reset_ball([g EXCEPT !.score = 0,
                        !.balls_left = START_BALLS,
                        !.game_over = FALSE,
                        !.paused = FALSE])
     EXCEPT !.tilt_meter = 0,
            !.tilt_active = FALSE]

restart(g) ==
  [reset_ball([g EXCEPT !.score = 0,
                        !.balls_left = START_BALLS,
                        !.game_over = FALSE,
                        !.paused = FALSE])
     EXCEPT !.bumper_mult = 1,
            !.bumper_mult_timer = 0,
            !.rollovers = [i \in Rollovers |-> FALSE],
            !.tilt_meter = 0,
            !.tilt_active = FALSE]

\* a nudge that starts the lockout afresh when tilt is already on
do_nudgeRestartsLockout(g, dir_sign) ==
  LET g1 == [g EXCEPT !.ball.vel[1] = @ + dir_sign * NUDGE_IMPULSE * PX,
                      !.tilt_meter = @ + METER]
  IN IF g1.tilt_meter >= TILT_MAX * METER
     THEN [g1 EXCEPT !.tilt_active = TRUE,
                     !.tilt_timer = TILT_LOCKOUT,
                     !.left_flipper.key_pressed = FALSE,
                     !.right_flipper.key_pressed = FALSE]
     ELSE g1

\* a nudge that tilts only once the meter has passed TILT_MAX
do_nudgeLate(g, dir_sign) ==
  LET g1 == [g EXCEPT !.ball.vel[1] = @ + dir_sign * NUDGE_IMPULSE * PX,
                      !.tilt_meter = @ + METER]
  IN IF g1.tilt_meter > TILT_MAX * METER /\ ~g1.tilt_active
     THEN [g1 EXCEPT !.tilt_active = TRUE,
                     !.tilt_timer = TILT_LOCKOUT,
                     !.left_flipper.key_pressed = FALSE,
                     !.right_flipper.key_pressed = FALSE]
     ELSE g1

\* dir_sign is random.choice([-1, 1])
do_nudge(g, dir_sign) ==
  LET g1 == [g EXCEPT !.ball.vel[1] = @ + dir_sign * NUDGE_IMPULSE * PX,
                      !.tilt_meter = @ + METER]
  IN IF g1.tilt_meter >= TILT_MAX * METER /\ ~g1.tilt_active
     THEN [g1 EXCEPT !.tilt_active = TRUE,
                     !.tilt_timer = TILT_LOCKOUT,
                     !.left_flipper.key_pressed = FALSE,
                     !.right_flipper.key_pressed = FALSE]
     ELSE g1

\* a launch that forgets the base speed
launch_ballNoBase(g, angle) ==
  LET speed == g.plunger_power
  IN IF g.ball.in_play THEN g
     ELSE [g EXCEPT !.ball.vel = <<RDiv(Cos(angle) * speed, NS),
                                   -RDiv(Sin(angle) * speed, NS)>>,
                    !.ball.in_play = TRUE,
                    !.plunger_power = 0,
                    !.ball_save_active = TRUE,
                    !.ball_save_timer = BALL_SAVE_TIME]

\* angle is random.uniform(radians(100), radians(120))
launch_ball(g, angle) ==
  LET speed == g.plunger_power + LAUNCH_BASE * PX
  IN IF g.ball.in_play THEN g
     ELSE [g EXCEPT !.ball.vel = <<RDiv(Cos(angle) * speed, NS),
                                   -RDiv(Sin(angle) * speed, NS)>>,
                    !.ball.in_play = TRUE,
                    !.plunger_power = 0,
                    !.ball_save_active = TRUE,
                    !.ball_save_timer = BALL_SAVE_TIME]

\* a KEYDOWN branch whose flipper keys do not look at the tilt
keydownThroughTilt(g, key, dir_sign) ==
  CASE key = "left" -> [g EXCEPT !.left_flipper.key_pressed = TRUE]
    [] key = "right" -> [g EXCEPT !.right_flipper.key_pressed = TRUE]
    [] key = "p" -> IF ~g.game_over THEN [g EXCEPT !.paused = ~@] ELSE g
    [] key = "r" -> IF g.game_over THEN restart(g) ELSE g
    [] key = "n" -> IF g.ball.in_play /\ ~g.paused /\ ~g.game_over
                    THEN do_nudge(g, dir_sign) ELSE g
    [] OTHER -> g

\* the KEYDOWN branch of handle_events for one event
keydown(g, key, dir_sign) ==
  CASE key = "left" -> IF ~g.tilt_active THEN [g EXCEPT !.left_flipper.key_pressed = TRUE] ELSE g
    [] key = "right" -> IF ~g.tilt_active THEN [g EXCEPT !.right_flipper.key_pressed = TRUE] ELSE g
    [] key = "p" -> IF ~g.game_over THEN [g EXCEPT !.paused = ~@] ELSE g
    [] key = "r" -> IF g.game_over THEN restart(g) ELSE g
    [] key = "n" -> IF g.ball.in_play /\ ~g.paused /\ ~g.game_over
                    THEN do_nudge(g, dir_sign) ELSE g
    [] OTHER -> g

\* the KEYUP branch
keyup(g, key) ==
  CASE key = "left" -> [g EXCEPT !.left_flipper.key_pressed = FALSE]
    [] key = "right" -> [g EXCEPT !.right_flipper.key_pressed = FALSE]
    [] OTHER -> g

\* "Plunger charge", the tail of handle_events; space is keys[K_SPACE]
plunger(g, dt, space, angle) ==
  IF ~g.ball.in_play /\ ~g.game_over /\ ~g.paused
  THEN IF space
       THEN [g EXCEPT !.plunger_power = clamp(@ + PlungerGain(dt), 0, PLUNGER_MAX * PX)]
       ELSE IF g.plunger_power > 0 THEN launch_ball(g, angle) ELSE g
  ELSE g

\* ------------------------------------------------------- persistence
\* highscore.txt: absent, or holding text that int() parses (n) or rejects
NoFile == [kind |-> "absent", n |-> 0]
Junk == [kind |-> "junk", n |-> 0]
Number(n) == [kind |-> "int", n |-> n]

\* a load that has no default for a file it cannot use
load_high_scoreNoDefault(txt, io_ok) ==
  IF io_ok /\ txt.kind = "int" THEN txt.n ELSE -1

\* io_ok is false when the read raises
load_high_score(txt, io_ok) ==
  IF io_ok /\ txt.kind = "int" THEN txt.n ELSE 0

\* io_ok is false when the write raises
save_high_score(txt, high_score, io_ok) ==
  IF io_ok THEN Number(high_score) ELSE txt

\* Game.__init__ followed by the reset_ball of Game.run
NewGame(high_score) ==
  [ left_flipper |-> Flipper(left_pivot, TRUE),
    right_flipper |-> Flipper(right_pivot, FALSE),
    ball |-> Ball(SpawnPos),
    plunger_power |-> 0,
    ball_save_timer |-> 0,
    ball_save_active |-> FALSE,
    score |-> 0,
    high_score |-> high_score,
    balls_left |-> START_BALLS,
    paused |-> FALSE,
    game_over |-> FALSE,
    just_lost |-> FALSE,
    bumper_mult |-> 1,
    bumper_mult_timer |-> 0,
    tilt_meter |-> 0,
    tilt_active |-> FALSE,
    tilt_timer |-> 0,
    rollovers |-> [i \in Rollovers |-> FALSE] ]

\* ------------------------------------------------------------- bounds
\* the frame times clock.tick may return, in milliseconds: FrameTicks ticks of
\* 2.5 s, the time in which the tilt meter decays by one whole nudge.
\* clock.tick(FPS) bounds a frame from below only; frames this long let the
\* ball save, the tilt lockout and the multiplier run out within a few steps.
FrameTicks == 2
TickMs == (5 * MS) \div 2
DtSet == {FrameTicks * TickMs}
\* nudges the tilt meter may hold, points the score may hold, and frames a
\* freshly spawned ball may be left waiting in the launch lane
MaxNudges == 4
MaxScore == 1750
MaxIdleUpdates == 2
\* what highscore.txt may hold when the program starts
StartHigh == 1000
StartFiles == {Number(StartHigh)}
\* where apply_physics may carry a ball in play: onto each rollover, into
\* the open field, and below the drain line
OpenField == Px(<<200, 400>>)
BelowDrain == Px(<<200, HEIGHT + 60>>)
PlayVel == <<-(100 * PX), 300 * PX>>
Move(p) == [pos |-> p, vel |-> PlayVel]
FieldMoves == {Move(OpenField), Move(BelowDrain)}
LaneMoves == {Move(rollover_pos[i]) : i \in Rollovers} \cup FieldMoves
\* an idle ball is not moved, so one move stands for all
MovesOf(ball, moves) == IF ball.in_play THEN moves ELSE {CHOOSE m \in moves : TRUE}
LaunchAngles == {100 * DEG, 120 * DEG}

\* -------------------------------------------------------------- state
VARIABLES
  game,           \* the Game object
  highscore_txt,  \* the file highscore.txt
  pc,             \* where Game.run stands in its frame: "events" or "update"
  dt,             \* the frame time of the current frame
  idle_updates,   \* updates the ball has spent idle since it was spawned
  fx              \* what the latest update did (see NoFx)

vars == <<game, highscore_txt, pc, dt, idle_updates, fx>>

\* the program starts with one of `files` as highscore.txt, reads it with one
\* of the outcomes `reads` (FALSE: the read raises) and opens its first frame
\* with a time from dts
InitFrom(files, reads, dts) ==
  /\ highscore_txt \in files
  /\ \E io_ok \in reads : game = NewGame(load_high_score(highscore_txt, io_ok))
  /\ pc = "events"
  /\ dt \in dts
  /\ idle_updates = 0
  /\ fx = NoFx

\* the program starts with a high-score file that it reads without error
Init == InitFrom(StartFiles, {TRUE}, DtSet)

\* one KEYDOWN event of the event loop, with the outcome of random.choice
KeyDownWith(key, dir_sign) ==
  /\ pc = "events"
  /\ game' = keydown(game, key, dir_sign)
  /\ game'.tilt_meter <= MaxNudges * METER
  /\ idle_updates' = IF key = "r" /\ game.game_over THEN 0 ELSE idle_updates
  /\ UNCHANGED <<highscore_txt, pc, dt, fx>>

\* one KEYDOWN event of the event loop
KeyDown(key) == \E dir_sign \in {-1, 1} : KeyDownWith(key, dir_sign)

\* one KEYUP event of the event loop
KeyUp(key) ==
  /\ pc = "events"
  /\ game' = keyup(game, key)
  /\ UNCHANGED <<highscore_txt, pc, dt, idle_updates, fx>>

\* the end of handle_events: the plunger, with space held or not and the
\* angle random.uniform draws
PlungerWith(space, angle) ==
  /\ pc = "events"
  /\ game' = plunger(game, dt, space, angle)
  /\ (~game'.ball.in_play /\ ~game.paused /\ ~game.game_over)
       => idle_updates < MaxIdleUpdates
  /\ pc' = "update"
  /\ UNCHANGED <<highscore_txt, dt, idle_updates, fx>>

\* the end of handle_events: the plunger, charged or released
Plunger == \E space \in BOOLEAN, angle \in LaunchAngles : PlungerWith(space, angle)

\* Game.update with the ball carried to `moved`, then draw and the
\* clock.tick that opens the next frame with a time from dts; the score is
\* kept within max_score
UpdateOver(moved, dts, max_score) ==
  /\ pc = "update"
  /\ LET r == update(game, dt, moved)
     IN /\ r.g.score <= max_score
        /\ game' = r.g
        /\ fx' = r.fx
        /\ IF r.fx.saves > 0
           THEN \E io_ok \in BOOLEAN :
                  highscore_txt' = save_high_score(highscore_txt, r.g.high_score, io_ok)
           ELSE highscore_txt' = highscore_txt
  /\ idle_updates' =
       IF game.paused \/ game.game_over THEN idle_updates
       ELSE IF game.ball.in_play THEN 0
       ELSE idle_updates + 1
  /\ pc' = "events"
  /\ dt' \in dts

UpdateWith(moved) == UpdateOver(moved, DtSet, MaxScore)

Update(moves) == \E moved \in MovesOf(game.ball, moves) : UpdateWith(moved)

\* the whole table, played without the flippers; every nudge pushes to the right
Next ==
  \/ \E key \in {"p", "r", "n"} : KeyDownWith(key, 1)
  \/ Plunger
  \/ Update(LaneMoves)

Spec == Init /\ [][Next]_vars

\* every control, with the ball kept off the rollover lanes
NextControls ==
  \/ \E key \in {"left", "right", "p", "r", "n"} : KeyDown(key)
  \/ \E key \in {"left", "right"} : KeyUp(key)
  \/ Plunger
  \/ Update(FieldMoves)

SpecControls == Init /\ [][NextControls]_vars

\* the plunger, watched over frames short enough to charge it in steps:
\* 0.1 s and 0.4 s
\* A run at a steady frame time, short enough to catch the flippers in
\* mid-swing (0.05 s, a sweep of 45 degrees) or long enough to cover the
\* whole swing; the ball is launched and stays in the open field, the
\* flipper keys go down and up, and the table is nudged, as far as into
\* tilt, in the frame that follows the launch.
NudgedEarly == game.ball.in_play /\ game.ball_save_timer >= BALL_SAVE_TIME - dt
FlipDts == {TickMs \div 50, FrameTicks * TickMs}
InitFlippers == InitFrom(StartFiles, {TRUE}, FlipDts)
NextFlippers ==
  \/ \E key \in {"left", "right"} : KeyDownWith(key, 1)
  \/ NudgedEarly /\ KeyDownWith("n", 1)
  \/ \E key \in {"left", "right"} : KeyUp(key)
  \/ Plunger
  \/ \E moved \in MovesOf(game.ball, {Move(OpenField)}) : UpdateOver(moved, {dt}, MaxScore)
SpecFlippers == InitFlippers /\ [][NextFlippers]_vars

\* A ball that comes down on the top bumper, crosses the lanes, flies
\* through the open field or drains; the score may run up to two doubled
\* hits past the completion of the rollover set.
OnTopBumper == Px(<<225, 265>>)
BumperMoves ==
  {Move(OnTopBumper)} \cup LaneMoves
BumperScoreCap == MaxScore + 4 * bumpers[3].score
NextBumpers ==
  \/ Plunger
  \/ \E moved \in MovesOf(game.ball, BumperMoves) : UpdateOver(moved, DtSet, BumperScoreCap)
SpecBumpers == Init /\ [][NextBumpers]_vars

\* The program starts on any highscore.txt, readable or not, plays its
\* balls over the lanes and saves, or fails to save, when the game is over.
AnyFiles == {NoFile, Junk, Number(StartHigh)}
InitFiles == InitFrom(AnyFiles, BOOLEAN, DtSet)
NextFiles == Plunger \/ Update(LaneMoves)
SpecFiles == InitFiles /\ [][NextFiles]_vars

\* The flippers alone: keys and pause, no nudge.  The loop of Game.run never
\* stops: the plunger step that ends the events of a frame is taken when it
\* can be, and there is always another update to come.
FrameUpdate == pc = "update" /\ pc' = "events"
NextTracking ==
  \/ \E key \in {"left", "right", "p"} : KeyDownWith(key, 1)
  \/ \E key \in {"left", "right"} : KeyUp(key)
  \/ Plunger
  \/ \E moved \in MovesOf(game.ball, {Move(OpenField)}) : UpdateOver(moved, {dt}, MaxScore)
SpecTracking ==
  /\ InitFlippers
  /\ [][NextTracking]_vars
  /\ WF_vars(Plunger)
  /\ []<><<FrameUpdate>>_vars

\* The tilt lockout at a steady frame time of 2.5 s (the lockout of 4 s
\* takes two updates) or of 5 s: nudges, pause, restart, flipper keys, the
\* ball in the field or down the drain, and a frame loop that never stops.
TiltDts == {TickMs, FrameTicks * TickMs}
InitTilt == InitFrom(StartFiles, {TRUE}, TiltDts)
NextTilt ==
  \/ \E key \in {"left", "n", "p", "r"} : KeyDownWith(key, 1)
  \/ KeyUp("left")
  \/ Plunger
  \/ \E moved \in MovesOf(game.ball, FieldMoves) : UpdateOver(moved, {dt}, MaxScore)
SpecTilt ==
  /\ InitTilt
  /\ [][NextTilt]_vars
  /\ WF_vars(Plunger)
  /\ []<><<FrameUpdate>>_vars

LaunchDts == {MS \div 10, (4 * MS) \div 10}

InitLaunch == InitFrom(StartFiles, {TRUE}, LaunchDts)

NextLaunch ==
  \/ KeyDown("p")
  \/ Plunger
  \/ \E moved \in MovesOf(game.ball, FieldMoves) : UpdateOver(moved, LaunchDts, MaxScore)

SpecLaunch == InitLaunch /\ [][NextLaunch]_vars

\* ------------------------------------------------------------ properties
\* update runs its body: the game is neither paused nor over
Running == ~game.paused /\ ~game.game_over

\* the ball in play is carried wholly below the drain line
Crosses(moved) ==
  /\ Running
  /\ game.ball.in_play
  /\ moved.pos[2] - BALL_RADIUS * PX > (HEIGHT + 40) * PX

\* ball_save_active as the drain check reads it, after this frame's countdown
SaveAtCheck == game.ball_save_active /\ game.ball_save_timer - dt > 0

\* the step is a R key pressed while the game is over
RestartStep == KeyDown("r") /\ game.game_over

\* C1: an update in which the ball in play crosses the drain line leaves
\* balls_left alone, respawns the ball idle in the launch lane and clears the
\* save window when ball_save_active holds at the drain check, and takes
\* exactly one ball when it does not; balls_left changes in no other step
\* but a restart.
DrainAccounting ==
  [][ /\ \A moved \in LaneMoves :
           (UpdateWith(moved) /\ Crosses(moved)) =>
             IF SaveAtCheck
             THEN /\ game'.balls_left = game.balls_left
                  /\ game'.ball = Ball(SpawnPos)
                  /\ ~game'.ball_save_active
                  /\ game'.ball_save_timer = 0
             ELSE game'.balls_left = game.balls_left - 1
      /\ game'.balls_left # game.balls_left =>
           \/ \E moved \in LaneMoves :
                UpdateWith(moved) /\ Crosses(moved) /\ ~SaveAtCheck
           \/ RestartStep ]_vars

\* a ball has just been saved in a game that had already lost one
DrainSavedAfterLoss ==
  /\ fx.drain = "saved"
  /\ game.balls_left = START_BALLS - 1
  /\ game.ball = Ball(SpawnPos)

\* C2: the unsaved drain of the last ball sets game_over and sets
\* high_score to max(high_score, score), saving it once (the file then holds
\* it unless the write fails); game_over is set by no other step; and while
\* the game is over an update changes nothing and saves nothing.
GameOverOnce ==
  [][ /\ \A moved \in LaneMoves :
           UpdateWith(moved) =>
             /\ (Crosses(moved) /\ ~SaveAtCheck /\ game.balls_left = 1) =>
                  /\ game'.game_over
                  /\ game'.score = game.score
                  /\ game'.high_score = Max2(game.high_score, game.score)
                  /\ fx'.saves = 1
                  /\ highscore_txt' \in {Number(game'.high_score), highscore_txt}
             /\ game.game_over =>
                  /\ game' = game
                  /\ fx'.saves = 0 /\ fx'.drain = "none"
                  /\ highscore_txt' = highscore_txt
      /\ (game'.game_over /\ ~game.game_over) =>
           \E moved \in LaneMoves :
             UpdateWith(moved) /\ Crosses(moved) /\ ~SaveAtCheck /\ game.balls_left = 1
      /\ (highscore_txt' # highscore_txt \/ game'.high_score # game.high_score) =>
           game'.game_over /\ ~game.game_over ]_vars

\* the game is over with a score that beat the old high score and was saved,
\* and an update has run since
GameOverNewHigh ==
  /\ game.game_over
  /\ game.score > StartHigh
  /\ game.high_score = game.score
  /\ highscore_txt = Number(game.score)
  /\ fx = NoFx

\* C3: the R key pressed while the game is over zeroes the score, restores
\* START_BALLS, unlights every rollover, sets the bumper multiplier to 1 and
\* its timer to 0, the tilt meter to 0 and tilt off, clears game_over and
\* respawns an idle ball, keeping high_score; pressed at any other time it
\* changes nothing.
RestartOnlyWhenOver ==
  [][ KeyDown("r") =>
        IF game.game_over
        THEN /\ game'.score = 0
             /\ game'.balls_left = START_BALLS
             /\ \A i \in Rollovers : ~game'.rollovers[i]
             /\ game'.bumper_mult = 1
             /\ game'.bumper_mult_timer = 0
             /\ game'.tilt_meter = 0
             /\ ~game'.tilt_active
             /\ ~game'.game_over
             /\ game'.ball = Ball(SpawnPos)
             /\ game'.high_score = game.high_score
             /\ highscore_txt' = highscore_txt
        ELSE game' = game /\ highscore_txt' = highscore_txt ]_vars

\* a fresh game that follows one which set a new high score
RestartedAfterNewHigh ==
  /\ ~game.game_over
  /\ game.high_score > StartHigh
  /\ game.score = 0
  /\ game.balls_left = START_BALLS
  /\ game.ball = Ball(SpawnPos)
  /\ fx.saves = 1
\* the step is an N key that handle_events passes on to do_nudge
NudgeStep == KeyDown("n") /\ game.ball.in_play /\ Running

\* C4: the N key pressed while the ball is idle, the game is paused or over,
\* or tilt is active leaves the ball velocity, the tilt meter, tilt_active
\* and the tilt timer as they were.
NudgeOnlyWhenPermitted ==
  [][ (KeyDown("n") /\ (~game.ball.in_play \/ ~Running \/ game.tilt_active)) =>
        /\ game'.ball.vel = game.ball.vel
        /\ game'.tilt_meter = game.tilt_meter
        /\ game'.tilt_active = game.tilt_active
        /\ game'.tilt_timer = game.tilt_timer ]_vars

\* C5: tilt goes from off to on only in a nudge that leaves the meter at
\* TILT_MAX or more; every nudge that leaves it there with tilt off turns
\* tilt on with the timer at TILT_LOCKOUT; a nudge that leaves the meter
\* below TILT_MAX does not change tilt_active.
TiltExactlyAtMax ==
  [][ /\ (~game.tilt_active /\ game'.tilt_active) =>
           NudgeStep /\ game'.tilt_meter >= TILT_MAX * METER
      /\ (NudgeStep /\ ~game.tilt_active /\ game'.tilt_meter >= TILT_MAX * METER) =>
           game'.tilt_active /\ game'.tilt_timer = TILT_LOCKOUT
      /\ (NudgeStep /\ game'.tilt_meter < TILT_MAX * METER) =>
           game'.tilt_active = game.tilt_active ]_vars

\* tilt has just been set off by the nudge that brought the meter to TILT_MAX
TiltJustActivated ==
  /\ game.tilt_active
  /\ game.tilt_meter = TILT_MAX * METER
  /\ game.tilt_timer = TILT_LOCKOUT
  /\ game.ball.in_play

\* C6: whenever tilt is active, neither flipper's key_pressed is set.
TiltClearsFlippers ==
  game.tilt_active =>
    ~game.left_flipper.key_pressed /\ ~game.right_flipper.key_pressed

\* tilt is active over two flippers still raised by the keys it has cleared
TiltOverRaisedFlippers ==
  /\ game.tilt_active
  /\ game.left_flipper.angle # FlipperTarget(game.left_flipper)
  /\ game.right_flipper.angle # FlipperTarget(game.right_flipper)
  /\ ~game.left_flipper.key_pressed /\ ~game.right_flipper.key_pressed

\* C7: the tilt meter is never negative; an update that runs with tilt off
\* lowers it by TILT_DECAY * dt, stopping at 0; an update with tilt on leaves
\* it alone; and it grows only in a nudge, by exactly 1.
TiltMeterDynamics ==
  [][ /\ game.tilt_meter >= 0 /\ game'.tilt_meter >= 0
      /\ \A moved \in LaneMoves :
           (UpdateWith(moved) /\ Running) =>
             game'.tilt_meter =
               IF game.tilt_active THEN game.tilt_meter
               ELSE Max2(0, game.tilt_meter - TiltDecay(dt))
      /\ game'.tilt_meter > game.tilt_meter =>
           NudgeStep /\ game'.tilt_meter = game.tilt_meter + METER ]_vars

\* the lockout has run out in an update that left the meter where the
\* nudges had put it
MeterHeldThroughLockout ==
  /\ ~game.tilt_active
  /\ game.tilt_meter >= TILT_MAX * METER
  /\ game.tilt_timer = TILT_LOCKOUT - dt
  /\ pc = "events"
\* the ball carried to `moved` overlaps rollover i
Overlaps(moved, i) ==
  LET reach == ROLLOVER_RADIUS * PX + (BALL_RADIUS * PX * 6) \div 10
  IN Len2(VSub(moved.pos, rollover_pos[i])) < reach * reach

\* the rollovers an update with the ball at `moved` lights
NewlyLit(moved) == {i \in Rollovers : ~game.rollovers[i] /\ Overlaps(moved, i)}

\* the update completes the set: the ball is in play and every rollover is
\* lit, from before or by this update
Completes(moved) ==
  /\ game.ball.in_play
  /\ \A i \in Rollovers : game.rollovers[i] \/ Overlaps(moved, i)

\* C8: Rollover.check on a lit rollover returns False and leaves it lit; in
\* an update, a rollover lit beforehand is not newly lit and scores nothing
\* however long the ball stays on it, and stays lit unless the set is
\* completed; the score grows only by 250 for each rollover that was unlit
\* and by the completion bonus.
RolloverIdempotent ==
  [][ \A moved \in LaneMoves :
        /\ \A i \in Rollovers :
             Rollover_check(TRUE, rollover_pos[i], moved.pos, BALL_RADIUS * PX)
               = [lit |-> TRUE, newly |-> FALSE]
        /\ (UpdateWith(moved) /\ Running /\ game.ball.in_play) =>
             /\ \A i \in Rollovers :
                  game.rollovers[i] =>
                    /\ i \notin fx'.newly
                    /\ \A k \in 1 .. Len(fx'.hits) : fx'.hits[k][1] = "rollover" => fx'.hits[k][2] # i
                    /\ game'.rollovers[i] \/ Completes(moved)
             /\ fx'.newly = NewlyLit(moved)
             /\ game'.score = game.score
                                + ROLLOVER_SCORE * Cardinality(NewlyLit(moved))
                                + (IF Completes(moved) THEN MULT_BONUS ELSE 0) ]_vars

\* the ball has stayed through an update on a rollover that was already lit,
\* and the update lit and scored nothing
StayedOnLitRollover ==
  /\ fx.ran /\ fx.newly = {} /\ fx.hits = <<>>
  /\ game.ball.in_play
  /\ \E i \in Rollovers : game.rollovers[i] /\ game.ball.pos = rollover_pos[i]

\* C9: an update in which the set is complete adds the bonus of 1000 once,
\* starts the bumper multiplier (2, with the 15 s timer, of which this frame
\* is already counted) and ends with every rollover unlit; an update in
\* which a rollover stays unlit awards no bonus.
SetCompletion ==
  [][ \A moved \in LaneMoves :
        (UpdateWith(moved) /\ Running) =>
          IF Completes(moved)
          THEN /\ fx'.bonus = 1
               /\ game'.score = game.score
                                  + ROLLOVER_SCORE * Cardinality(NewlyLit(moved))
                                  + MULT_BONUS
               /\ game'.bumper_mult = 2
               /\ game'.bumper_mult_timer = MULT_TIME - dt
               /\ \A i \in Rollovers : ~game'.rollovers[i]
          ELSE /\ fx'.bonus = 0
               /\ game'.score <= game.score
                                   + ROLLOVER_SCORE * Cardinality(NewlyLit(moved)) ]_vars

\* the set has just been completed by the rollover that was missing
SetJustCompleted ==
  /\ fx.bonus = 1
  /\ Cardinality(fx.newly) = 1
  /\ game.score = Cardinality(Rollovers) * ROLLOVER_SCORE + MULT_BONUS
  /\ game.bumper_mult = 2
  /\ \A i \in Rollovers : ~game.rollovers[i]

\* C10: while the game is paused an update changes nothing, and the plunger
\* (charge and launch) and the N key are ignored; the P key does nothing
\* once the game is over.
PauseSuspends ==
  [][ /\ game.paused =>
           /\ \A moved \in LaneMoves :
                UpdateWith(moved) => game' = game /\ highscore_txt' = highscore_txt
           /\ Plunger => game' = game
           /\ KeyDown("n") => game' = game
      /\ (KeyDown("p") /\ game.game_over) => game' = game ]_vars

\* a paused update has passed over a ball in play with the tilt lockout and
\* the multiplier both running
PausedMidPlay ==
  /\ game.paused /\ ~fx.ran /\ pc = "events"
  /\ game.ball.in_play
  /\ game.tilt_active /\ game.tilt_timer = TILT_LOCKOUT
  /\ game.bumper_mult = 2 /\ game.bumper_mult_timer > 0
\* the step is Game.update run with the ball carried to `moved`, whatever
\* frame time follows it
UpdateAs(moved) ==
  /\ pc = "update" /\ pc' = "events"
  /\ game' = update(game, dt, moved).g
  /\ fx' = update(game, dt, moved).fx

\* the ball touches a wall or a bumper that scores
TouchesScoring(ball) ==
  \/ \E i \in 1 .. Len(walls) :
       /\ walls[i].score > 0
       /\ circle_line_collision(ball.pos, BALL_RADIUS * PX, walls[i].a, walls[i].b).hit
  \/ \E i \in 1 .. Len(bumpers) :
       circle_circle_collision(ball.pos, BALL_RADIUS * PX, bumpers[i].pos,
                               bumpers[i].radius).hit

\* C11: an update that starts with the ball idle leaves the score as it was
\* and awards neither a hit nor a completion bonus, whatever the idle ball
\* touches.
IdleBallScoresNothing ==
  [][ \A moved \in LaneMoves :
        (UpdateAs(moved) /\ ~game.ball.in_play) =>
          /\ game'.score = game.score
          /\ fx'.hits = <<>>
          /\ fx'.bonus = 0 ]_vars

\* an update has just pushed the idle ball off a bumper or a scoring wall
\* that it still touches, in a game that has points to compare with
IdleBallBounced ==
  /\ ~game.ball.in_play /\ ~game.game_over
  /\ fx.ran
  /\ game.ball.vel # <<0, 0>>
  /\ TouchesScoring(game.ball)
  /\ game.score > 0
\* C12: the score is never negative, and no step lowers it but the R key
\* pressed while the game is over, which sets it to 0.
ScoreNeverDrops ==
  [][ /\ game.score >= 0 /\ game'.score >= 0
      /\ game'.score < game.score => RestartStep /\ game'.score = 0 ]_vars

\* the last ball has just been lost and the points are still there
PointsKeptAtGameOver ==
  /\ game.game_over
  /\ fx.drain = "lost"
  /\ game.score > 0
  /\ game.tilt_meter > 0
\* the ball waits for the plunger: idle, with the game neither paused nor over
AwaitsLaunch == ~game.ball.in_play /\ Running

\* the length of v is `speed`, to the 1% within which the model knows sines
HasSpeed(v, speed) ==
  /\ 100 * ISqrt(Len2(v)) >= 99 * speed
  /\ 100 * ISqrt(Len2(v)) <= 101 * speed

\* C13: the plunger charge grows only while the ball is idle, the game is
\* neither paused nor over and space is held, by PLUNGER_CHARGE_RATE * dt,
\* within [0, PLUNGER_MAX]; the ball is launched exactly when space is
\* released over an idle ball with charge > 0, and then it is in play with
\* speed charge + 400 (at most PLUNGER_MAX + 400), the charge is 0 and the
\* ball save runs for BALL_SAVE_TIME; launch_ball on a ball in play changes
\* nothing.
LaunchRules ==
  [][ /\ game'.plunger_power >= 0 /\ game'.plunger_power <= PLUNGER_MAX * PX
      /\ game'.plunger_power > game.plunger_power =>
           /\ \E angle \in LaunchAngles : PlungerWith(TRUE, angle)
           /\ AwaitsLaunch
           /\ game'.plunger_power =
                Min2(game.plunger_power + PlungerGain(dt), PLUNGER_MAX * PX)
      /\ (game'.ball.in_play /\ ~game.ball.in_play) =>
           /\ \E angle \in LaunchAngles : PlungerWith(FALSE, angle)
           /\ AwaitsLaunch
           /\ game.plunger_power > 0
           /\ HasSpeed(game'.ball.vel, game.plunger_power + LAUNCH_BASE * PX)
           /\ 100 * ISqrt(Len2(game'.ball.vel)) <= 101 * (PLUNGER_MAX + LAUNCH_BASE) * PX
           /\ game'.plunger_power = 0
           /\ game'.ball_save_active
           /\ game'.ball_save_timer = BALL_SAVE_TIME
      /\ \A angle \in LaunchAngles :
           /\ (PlungerWith(FALSE, angle) /\ AwaitsLaunch /\ game.plunger_power > 0) =>
                game'.ball.in_play
           /\ (PlungerWith(TRUE, angle) /\ AwaitsLaunch) =>
                ~game'.ball.in_play /\ game'.plunger_power >= game.plunger_power
           /\ game.ball.in_play => launch_ball(game, angle) = game
      /\ (Plunger /\ ~AwaitsLaunch) => game' = game ]_vars

\* a ball has just been launched off a plunger charged for 0.1 s only
LaunchedAtPartialCharge ==
  /\ pc = "update"
  /\ game.ball.in_play
  /\ game.plunger_power = 0
  /\ game.ball_save_active /\ game.ball_save_timer = BALL_SAVE_TIME
  /\ HasSpeed(game.ball.vel, PlungerGain(MS \div 10) + LAUNCH_BASE * PX)
Flippers == {game.left_flipper, game.right_flipper}

\* C14: each flipper's angle stays within [min_angle, max_angle] in every
\* reachable state, whatever the keys, the tilts and the frame times, a
\* frame long enough to cover the whole swing included.
AnglesInRange ==
  \A f \in Flippers : f.min_angle <= f.angle /\ f.angle <= f.max_angle

\* tilted with the left flipper caught in mid-swing and the right one raised
TiltedInMidSwing ==
  /\ game.tilt_active /\ fx.ran
  /\ game.left_flipper.min_angle < game.left_flipper.angle
  /\ game.left_flipper.angle < game.left_flipper.max_angle
  /\ game.right_flipper.angle = game.right_flipper.max_angle
\* the multiplier timer as the "Bonus timers" block of an update finds it:
\* freshly set when the same update completed the set
WindowLeft(moved) ==
  IF Completes(moved) THEN MULT_TIME ELSE game.bumper_mult_timer

\* C15: the bumper multiplier is always 1 or 2 and goes from 1 to 2 only in
\* an update that completes the rollover set; while its window is open the
\* timer counts down by dt in every update of a running game, and the update
\* that brings it to 0 or below sets the multiplier back to 1, so that after
\* every update multiplier = 2 implies timer > 0; a closed window is left
\* alone, and outside updates only a restart touches the two (1 and 0).
MultiplierWindow ==
  [][ /\ game.bumper_mult \in {1, 2} /\ game'.bumper_mult \in {1, 2}
      /\ game'.bumper_mult = 2 => game'.bumper_mult_timer > 0
      /\ \A moved \in LaneMoves :
           UpdateWith(moved) =>
             /\ (game.bumper_mult = 1 /\ game'.bumper_mult = 2) =>
                  Running /\ Completes(moved)
             /\ Running =>
                  IF WindowLeft(moved) > 0
                  THEN /\ game'.bumper_mult_timer = WindowLeft(moved) - dt
                       /\ game'.bumper_mult =
                            IF WindowLeft(moved) - dt <= 0 THEN 1
                            ELSE IF Completes(moved) THEN 2
                            ELSE game.bumper_mult
                  ELSE /\ game'.bumper_mult_timer = game.bumper_mult_timer
                       /\ game'.bumper_mult = game.bumper_mult
      /\ pc = "events" =>
           IF RestartStep
           THEN game'.bumper_mult = 1 /\ game'.bumper_mult_timer = 0
           ELSE /\ game'.bumper_mult = game.bumper_mult
                /\ game'.bumper_mult_timer = game.bumper_mult_timer ]_vars

\* the window has run out in the latest update: the multiplier is back at 1
WindowJustClosed ==
  /\ fx.ran
  /\ game.bumper_mult = 1
  /\ game.bumper_mult_timer <= 0
  /\ game.score >= MULT_BONUS
  /\ ~game.game_over
\* the bumpers a ball at `pos` overlaps
HitBumpers(pos) ==
  {i \in 1..Len(bumpers) :
     circle_circle_collision(pos, BALL_RADIUS * PX, bumpers[i].pos, bumpers[i].radius).hit}

RECURSIVE BaseScores(_)
BaseScores(hit) ==
  IF hit = {} THEN 0
  ELSE LET i == CHOOSE i \in hit : TRUE
       IN bumpers[i].score + BaseScores(hit \ {i})

\* C16: an update with the ball in play adds to the score, for every bumper
\* the ball hits, the bumper's base score times the multiplier in force when
\* the bumper is hit: the base score while the multiplier is 1, twice that
\* during the window (the update that closes the window included); the
\* bumpers an idle ball hits add nothing.
BumperHitPays ==
  [][ \A moved \in BumperMoves :
        (UpdateOver(moved, DtSet, BumperScoreCap) /\ Running) =>
          IF game.ball.in_play
          THEN /\ game'.score =
                    game.score
                      + BaseScores(HitBumpers(moved.pos)) * game.bumper_mult
                      + ROLLOVER_SCORE * Cardinality(NewlyLit(moved))
                      + (IF Completes(moved) THEN MULT_BONUS ELSE 0)
               /\ game.bumper_mult \in {1, 2}
               /\ \A k \in 1..Len(fx'.hits) :
                    fx'.hits[k][1] = "bumper" =>
                      /\ fx'.hits[k][2] \in HitBumpers(moved.pos)
                      /\ fx'.hits[k][3] = bumpers[fx'.hits[k][2]].score * game.bumper_mult
          ELSE game'.score = game.score /\ fx'.hits = <<>> ]_vars

\* the top bumper has paid double in the update that closed the window
DoubledHitClosesWindow ==
  /\ fx.hits = << <<"bumper", 3, 2 * bumpers[3].score>> >>
  /\ game.bumper_mult = 1
  /\ game.score = Cardinality(Rollovers) * ROLLOVER_SCORE + MULT_BONUS
                    + 2 * bumpers[3].score

\* C17: while the ball is not in play it is stationary in the launch lane:
\* every update of a running game on an idle ball leaves the ball at the
\* spawn point (WIDTH - 140, HEIGHT - 140) with velocity zero.
IdleBallStaysAtSpawn ==
  [][ \A moved \in LaneMoves :
        (UpdateWith(moved) /\ ~game.ball.in_play /\ Running) =>
          /\ game'.ball.pos = SpawnPos
          /\ game'.ball.vel = <<0, 0>> ]_vars
\* the step ends the game
GameEnds == ~game.game_over /\ game'.game_over

\* C18: a high-score file that is absent, unreadable or not a number gives
\* an initial high score of 0; the update that ends the game sets game_over
\* and high_score = max(high_score, score) and leaves the game as the update
\* computed it whether the save succeeds or fails, a failed save leaving the
\* file as it was; no other step touches the file.
PersistenceFailuresIgnored ==
  /\ \A txt \in AnyFiles : load_high_score(txt, FALSE) = 0
  /\ load_high_score(NoFile, TRUE) = 0 /\ load_high_score(Junk, TRUE) = 0
  /\ highscore_txt.kind # "int" => game.high_score = 0
  /\ game.high_score \in {0, highscore_txt.n}
  /\ [][ IF GameEnds
         THEN /\ game'.high_score = Max2(game.high_score, game'.score)
              /\ game'.score = game.score
              /\ \E moved \in LaneMoves : game' = update(game, dt, moved).g
              /\ highscore_txt' \in {highscore_txt, Number(game'.high_score)}
         ELSE highscore_txt' = highscore_txt ]_vars

\* the game is over on a new high score that started from an unusable file
\* and could not be saved
GameOverSaveFailed ==
  /\ game.game_over /\ fx.saves > 0
  /\ highscore_txt = Junk
  /\ game.score > 0
  /\ game.high_score = game.score
\* an update of a running game: Flipper.update is called on both flippers
RunningUpdate == pc = "update" /\ Running /\ pc' = "events"

\* one call of Flipper.update, from f to g: towards the target by the sweep
\* of the frame at most, never past it, and at rest once there
Tracks(f, g) ==
  LET target == FlipperTarget(f)
  IN /\ Abs(g.angle - f.angle) = Min2(FlipperSweep(dt), Abs(target - f.angle))
     /\ Abs(target - g.angle) = Abs(target - f.angle) - Abs(g.angle - f.angle)
     /\ Min2(f.angle, target) <= g.angle /\ g.angle <= Max2(f.angle, target)
     /\ f.angle = target => g.angle = target /\ AngVel(f, dt) = 0
     /\ g.key_pressed = f.key_pressed

\* with updates going on and the key held as `pressed` from some time on,
\* the flipper comes to rest at the angle that goes with it
Settles(left, pressed) ==
  LET f == IF left THEN game.left_flipper ELSE game.right_flipper
  IN ([]<><<RunningUpdate>>_vars /\ <>[](f.key_pressed = pressed))
       => <>[](/\ f.angle = (IF pressed THEN f.max_angle ELSE f.min_angle)
               /\ AngVel(f, dt) = 0)

\* C19: in every update of a running game each flipper moves towards its
\* target (max_angle with the key pressed, min_angle without) by
\* FLIPPER_SPEED * dt at most and never past it, and no other step moves a
\* flipper; if the intent stays as it is and updates of a running game keep
\* occurring, the flipper reaches the target and stays there with angular
\* velocity 0.
FlipperTracking ==
  /\ [][ IF RunningUpdate
         THEN /\ Tracks(game.left_flipper, game'.left_flipper)
              /\ Tracks(game.right_flipper, game'.right_flipper)
         ELSE /\ game'.left_flipper.angle = game.left_flipper.angle
              /\ game'.right_flipper.angle = game.right_flipper.angle ]_vars
  /\ \A left \in BOOLEAN, pressed \in BOOLEAN : Settles(left, pressed)

\* the left flipper has come up in two frames and rests raised on the third
RaisedInSteps ==
  /\ fx.ran /\ dt = TickMs \div 50
  /\ game.left_flipper.key_pressed
  /\ game.left_flipper.angle = game.left_flipper.max_angle
  /\ game.right_flipper.angle > game.right_flipper.min_angle
  /\ game.right_flipper.angle < game.right_flipper.max_angle
  /\ ~game.ball_save_active /\ game.ball.in_play
\* C20: while tilt is active the lockout timer holds TILT_LOCKOUT less the dt
\* of the updates run since the activation: every update of a running game
\* takes dt off it and ends the tilt exactly when that brings it to 0 or
\* below, and no key or plunger step (further nudges included) changes the
\* timer or, but for a restart, the tilt; so if updates of a running game
\* keep occurring, an active tilt ends.
LockoutEnds ==
  /\ [][ /\ game.tilt_active =>
              /\ 0 < game.tilt_timer /\ game.tilt_timer <= TILT_LOCKOUT
              /\ IF RunningUpdate
                 THEN /\ game'.tilt_timer = game.tilt_timer - dt
                      /\ game'.tilt_active = (game.tilt_timer - dt > 0)
                 ELSE /\ game'.tilt_timer = game.tilt_timer
                      /\ game'.tilt_active = ~RestartStep
         /\ (~game.tilt_active /\ game'.tilt_active) =>
              ~RunningUpdate /\ game'.tilt_timer = TILT_LOCKOUT ]_vars
  /\ ([]<><<RunningUpdate>>_vars) => (game.tilt_active ~> ~game.tilt_active)

\* a further nudge has come in during the lockout and one update has run:
\* the timer shows the update alone
NudgedDuringLockout ==
  /\ game.tilt_active
  /\ game.tilt_timer = TILT_LOCKOUT - TickMs
  /\ game.tilt_meter > TILT_MAX * METER
  /\ pc = "events"

\* C21: within an update the ball-save timer is advanced before the drain
\* check: when the ball in play crosses the drain line under an active save
\* window, the ball is lost and balls_left goes down by one if this update's
\* countdown brings the timer to 0 or below, and the ball is saved, balls_left
\* unchanged, if the timer is still above 0 after the countdown.
TimerBeforeDrainCheck ==
  [][ \A moved \in FieldMoves :
        (/\ UpdateOver(moved, LaunchDts, MaxScore)
         /\ Crosses(moved)
         /\ game.ball_save_active) =>
          IF game.ball_save_timer - dt <= 0
          THEN /\ fx'.drain = "lost" /\ fx'.cut_short
               /\ game'.balls_left = game.balls_left - 1
               /\ ~game'.ball.in_play
          ELSE /\ fx'.drain = "saved" /\ ~fx'.cut_short
               /\ game'.balls_left = game.balls_left
               /\ game'.ball = Ball(SpawnPos) ]_vars

\* the last ball went down the drain in the very update that brought its
\* save timer to 0, and was lost
LostAsWindowClosed ==
  /\ fx.cut_short /\ fx.drain = "lost"
  /\ game.game_over
  /\ game.ball_save_timer = 0
  /\ ~game.ball_save_active
\* C22: in every reachable state 0 <= balls_left <= START_BALLS, the game
\* is over exactly when balls_left = 0, and the game is never both over and
\* paused.
BallsLeftAndGameOver ==
  /\ 0 <= game.balls_left /\ game.balls_left <= START_BALLS
  /\ game.game_over <=> game.balls_left = 0
  /\ ~(game.game_over /\ game.paused)

\* a second game, begun by a restart, is over below the high score of the
\* first
SecondGameOver ==
  /\ game.game_over /\ game.balls_left = 0 /\ ~game.paused
  /\ game.high_score > StartHigh
  /\ game.score < game.high_score
  /\ fx.drain = "lost"
\* the save window is open over a ball in play of a game that is not over,
\* with its timer in (0, BALL_SAVE_TIME]
WindowInOrder(g) ==
  g.ball_save_active =>
    /\ g.ball.in_play /\ ~g.game_over
    /\ 0 < g.ball_save_timer /\ g.ball_save_timer <= BALL_SAVE_TIME

\* C23: before and after every key, plunger and update step, ball_save_active
\* implies that the ball is in play, the game is not over and the ball-save
\* timer is in (0, BALL_SAVE_TIME]; and every step that puts the ball in
\* play, the relaunch after a saved ball included, opens the window with the
\* timer at BALL_SAVE_TIME.
SaveWindowInOrder ==
  [][ /\ WindowInOrder(game) /\ WindowInOrder(game')
      /\ (~game.ball.in_play /\ game'.ball.in_play) =>
           /\ game'.ball_save_active
           /\ game'.ball_save_timer = BALL_SAVE_TIME ]_vars

\* the ball is launched again after a save: no ball has been lost, the tilt
\* meter still shows the nudges of its first flight, the window is full
RelaunchedAfterSave ==
  /\ pc = "update"
  /\ game.ball.in_play
  /\ game.ball_save_active /\ game.ball_save_timer = BALL_SAVE_TIME
  /\ game.balls_left = START_BALLS
  /\ game.tilt_meter > 0

====
